---- MODULE Spec2Model ----
(***************************************************************************)
(* Model of scripts/generate_survey_visual.py: load_rows, summarize,       *)
(* make_svg and main, with Python's float arithmetic (IEEE-754 binary64,   *)
(* round to nearest even) computed on fixed-point limb vectors.            *)
(***************************************************************************)
EXTENDS Integers, Sequences, FiniteSets, TLC

(***************************************************************************)
(* Python float.  A float value v with 0 <= v < 2^16 is the vector f of    *)
(* NLimbs limbs, least significant first, with                             *)
(*     v = (SUM_i f[i] * Limb^(i-1)) / Limb^FracLimbs.                     *)
(* Every binary64 value the script computes (at least 2^-27, below 2^16)   *)
(* is exactly such a vector.                                               *)
(***************************************************************************)
Limb == 2^16
NLimbs == 6
FracLimbs == 5
LimbIdx == 1..NLimbs
\* Significand width of binary64.
Precision == 53

FromInt(n) == [i \in LimbIdx |-> IF i = NLimbs THEN n ELSE 0]

\* The number of bits of a limb v.
BitLen16(v) ==
  IF v < 2^8
  THEN (IF v < 2^4
        THEN (IF v < 2^2 THEN (IF v < 1 THEN 0 ELSE IF v < 2 THEN 1 ELSE 2)
              ELSE (IF v < 2^3 THEN 3 ELSE 4))
        ELSE (IF v < 2^6 THEN (IF v < 2^5 THEN 5 ELSE 6)
              ELSE (IF v < 2^7 THEN 7 ELSE 8)))
  ELSE (IF v < 2^12
        THEN (IF v < 2^10 THEN (IF v < 2^9 THEN 9 ELSE 10)
              ELSE (IF v < 2^11 THEN 11 ELSE 12))
        ELSE (IF v < 2^14 THEN (IF v < 2^13 THEN 13 ELSE 14)
              ELSE (IF v < 2^15 THEN 15 ELSE 16)))

\* The highest limb that is not 0, from limb i down; 0 when there is none.
RECURSIVE TopLimb(_, _)
TopLimb(f, i) == IF i = 0 \/ f[i] # 0 THEN i ELSE TopLimb(f, i - 1)

\* The number of significant bits of f.
BitLenF(f) ==
  LET top == TopLimb(f, NLimbs)
  IN IF top = 0 THEN 0 ELSE 16 * (top - 1) + BitLen16(f[top])

BitAt(f, p) == (f[(p \div 16) + 1] \div 2^(p % 16)) % 2

\* f mod 2^d
LowBits(f, d) ==
  [i \in LimbIdx |-> IF i <= d \div 16 THEN f[i]
                     ELSE IF i = (d \div 16) + 1 THEN f[i] % 2^(d % 16)
                     ELSE 0]

\* f - (f mod 2^d)
HighBits(f, d) ==
  [i \in LimbIdx |-> IF i <= d \div 16 THEN 0
                     ELSE IF i = (d \div 16) + 1 THEN f[i] - (f[i] % 2^(d % 16))
                     ELSE f[i]]

Pow2F(d) == [i \in LimbIdx |-> IF i = (d \div 16) + 1 THEN 2^(d % 16) ELSE 0]

\* -1, 0, 1 as a < b, a = b, a > b: the comparison from limb i down.
RECURSIVE CmpFrom(_, _, _)
CmpFrom(a, b, i) ==
  IF i = 0 THEN 0
  ELSE IF a[i] > b[i] THEN 1
  ELSE IF a[i] < b[i] THEN -1
  ELSE CmpFrom(a, b, i - 1)

CmpF(a, b) == CmpFrom(a, b, NLimbs)

\* Limbs i.. of a + b, given the carry into limb i.
RECURSIVE AddFrom(_, _, _, _)
AddFrom(a, b, i, carry) ==
  IF i > NLimbs THEN <<>>
  ELSE <<(a[i] + b[i] + carry) % Limb>> \o AddFrom(a, b, i + 1, (a[i] + b[i] + carry) \div Limb)

AddExact(a, b) == AddFrom(a, b, 1, 0)

\* Limbs i.. of f * k, given the carry into limb i (k < 2^15).
RECURSIVE MulFrom(_, _, _, _)
MulFrom(f, k, i, carry) ==
  IF i > NLimbs THEN <<>>
  ELSE <<(f[i] * k + carry) % Limb>> \o MulFrom(f, k, i + 1, (f[i] * k + carry) \div Limb)

MulSmallExact(f, k) == MulFrom(f, k, 1, 0)

\* Round the exact value f (plus a positive amount below one unit of f's last
\* place when sticky) to Precision significant bits, ties to even.
RoundF(f, sticky) ==
  LET d == BitLenF(f) - Precision
  IN IF d <= 0 THEN f
     ELSE LET c == CmpF(LowBits(f, d), Pow2F(d - 1))
              up == c = 1 \/ (c = 0 /\ (sticky \/ BitAt(f, d) = 1))
          IN IF up THEN AddExact(HighBits(f, d), Pow2F(d)) ELSE HighBits(f, d)

\* The long division of c * Limb^FracLimbs by t from limb i down, rem the
\* remainder brought down: the quotient's limbs 1..i, then the last remainder.
RECURSIVE DivFrom(_, _, _)
DivFrom(t, i, rem) ==
  IF i = 0 THEN <<rem>>
  ELSE DivFrom(t, i - 1, (rem * Limb) % t) \o <<(rem * Limb) \div t>>

\* int / int: the correctly rounded quotient (0 < t < 2^15, 0 <= c < t * Limb).
FDiv(c, t) ==
  LET lower == DivFrom(t, FracLimbs, c % t)
  IN RoundF(SubSeq(lower, 2, NLimbs) \o <<c \div t>>, lower[1] # 0)

\* int * float and float * int.
FMul(k, f) == RoundF(MulSmallExact(f, k), FALSE)

FAdd(a, b) == RoundF(AddExact(a, b), FALSE)

\* float / 2: exact for the values used (the lowest bit of f is 0).
FHalf(f) ==
  [i \in LimbIdx |-> (f[i] \div 2) + (IF i < NLimbs THEN (f[i + 1] % 2) * (Limb \div 2) ELSE 0)]

FGreater(a, b) == CmpF(a, b) = 1

\* max(a, b) of Python: b only when b > a.
FMax(a, b) == IF FGreater(b, a) THEN b ELSE a

\* format(f, ".1f") as the integer number of tenths printed (631.4 is 6314):
\* the exact value rounded to one decimal, ties to even.
Fmt1(f) ==
  LET T == MulSmallExact(f, 10)
      guard == T[FracLimbs] >= Limb \div 2
      low == T[FracLimbs] % (Limb \div 2) # 0 \/ \E i \in 1..(FracLimbs - 1) : T[i] # 0
      up == guard /\ (low \/ T[NLimbs] % 2 = 1)
  IN T[NLimbs] + (IF up THEN 1 ELSE 0)

(***************************************************************************)
(* Texts.  A cell of the CSV is None (DictReader's restval for a short     *)
(* row) or a text, held as its chunks: each chunk is one whitespace        *)
(* character or a run of characters that neither starts nor ends with      *)
(* whitespace.  The Python str is the concatenation of the chunks.         *)
(***************************************************************************)
None == [some |-> FALSE, chunks |-> <<>>]

Cell(chunks) == [some |-> TRUE, chunks |-> chunks]

Whitespace == {" ", "\t", "\n"}

RECURSIVE Concat(_)
Concat(chunks) == IF chunks = <<>> THEN "" ELSE Head(chunks) \o Concat(Tail(chunks))

\* The str a cell holds.
Text(cell) == Concat(cell.chunks)

RECURSIVE LStrip(_)
LStrip(chunks) ==
  IF chunks # <<>> /\ Head(chunks) \in Whitespace THEN LStrip(Tail(chunks)) ELSE chunks

RECURSIVE RStrip(_)
RStrip(chunks) ==
  IF chunks # <<>> /\ chunks[Len(chunks)] \in Whitespace
  THEN RStrip(SubSeq(chunks, 1, Len(chunks) - 1))
  ELSE chunks

\* str.strip()
Strip(cell) == Concat(RStrip(LStrip(cell.chunks)))

\* dict.get(key): None when the key is absent.
Get(r, key) == IF key \in DOMAIN r THEN r[key] ELSE None

QUESTIONS ==
  << <<"Q29", "Likelihood of pursuing CPA license">>,
     <<"Q51", "Alternative pathway's impact on CPA desire">>,
     <<"Q52", "Alternative pathway's impact on graduate degree desire">>,
     <<"Q6", "Overall perception of CPA pathway change">>,
     <<"Q25", "Attractiveness of shorter graduate certificate">> >>

ORDER ==
  ("Very unlikely" :> 0) @@ ("Somewhat unlikely" :> 1) @@
  ("Neither likely nor unlikely" :> 2) @@ ("Somewhat likely" :> 3) @@
  ("Very likely" :> 4) @@
  ("Significantly decreased desire" :> 0) @@ ("Decreased desire" :> 1) @@
  ("No change in desire" :> 2) @@ ("Increased desire" :> 3) @@
  ("Significantly increased desire" :> 4) @@
  ("Very Negative" :> 0) @@ ("Somewhat Negative" :> 1) @@ ("Neutral" :> 2) @@
  ("Somewhat Positive" :> 3) @@ ("Very Positive" :> 4) @@
  ("Not at all attractive" :> 0) @@ ("Somewhat unattractive" :> 1) @@
  ("Neither attractive nor unattractive" :> 2) @@ ("Somewhat attractive" :> 3) @@
  ("Very attractive" :> 4)

COLOR_SCALE ==
  (0 :> "#8b1e3f") @@ (1 :> "#d8576b") @@ (2 :> "#b0b7c3") @@
  (3 :> "#58a4b0") @@ (4 :> "#1d7a8c")

(***************************************************************************)
(* load_rows: the filter of the list comprehension.                        *)
(***************************************************************************)
\* bool(r.get("ResponseId")): neither None nor the empty str.
HasResponseId(r) == Get(r, "ResponseId").some /\ Text(Get(r, "ResponseId")) # ""

NotHeaderRepeat(r) == ~(Get(r, "StartDate").some /\ Text(Get(r, "StartDate")) = "Start Date")

IsFinished(r) == Get(r, "Finished").some /\ Text(Get(r, "Finished")) = "True"

\* Variant of Keep: Finished tested for truth, not against "True".
KeepTruthyFinished(r) ==
  /\ HasResponseId(r) /\ NotHeaderRepeat(r)
  /\ Get(r, "Finished").some /\ Text(Get(r, "Finished")) # ""

Keep(r) == HasResponseId(r) /\ NotHeaderRepeat(r) /\ IsFinished(r)

load_rows(all) == SelectSeq(all, Keep)

(***************************************************************************)
(* summarize.  The Counter is the sequence of <<answer, count>> in order   *)
(* of first insertion (a dict keeps insertion order); sorted() is stable.  *)
(***************************************************************************)
\* The exception r[column].strip() raises for row r, "" when it raises none.
CellError(r, column) ==
  IF column \notin DOMAIN r THEN "KeyError"
  ELSE IF ~r[column].some THEN "AttributeError"
  ELSE ""

\* The exception of the first row that raises, in iteration order.
RECURSIVE FirstError(_, _)
FirstError(rows, column) ==
  IF rows = <<>> THEN ""
  ELSE IF CellError(Head(rows), column) # "" THEN CellError(Head(rows), column)
  ELSE FirstError(Tail(rows), column)

\* Variant of Answer: the value counted without strip().
AnswerUnstripped(r, column) == Text(r[column])

\* Variant of Counted: the value tested without strip().
CountedUnstripped(r, column) == Text(r[column]) # ""

\* The generator handed to Counter: the stripped values that are not empty.
Answer(r, column) == Strip(r[column])

Counted(r, column) == Answer(r, column) # ""

CounterAdd(counter, text) ==
  IF \E i \in 1..Len(counter) : counter[i][1] = text
  THEN [i \in 1..Len(counter) |->
          IF counter[i][1] = text THEN <<text, counter[i][2] + 1>> ELSE counter[i]]
  ELSE Append(counter, <<text, 1>>)

RECURSIVE CounterOf(_, _, _)
CounterOf(rows, column, counter) ==
  IF rows = <<>> THEN counter
  ELSE CounterOf(Tail(rows), column,
                 IF Counted(Head(rows), column)
                 THEN CounterAdd(counter, Answer(Head(rows), column))
                 ELSE counter)

\* Variant of SortKey: the default of the colour lookup, 2, for the sort.
SortKeyNeutralDefault(kv) == IF kv[1] \in DOMAIN ORDER THEN ORDER[kv[1]] ELSE 2

\* key=lambda kv: ORDER.get(kv[0], 999)
SortKey(kv) == IF kv[1] \in DOMAIN ORDER THEN ORDER[kv[1]] ELSE 999

\* Variant of InsertSorted: kv put before the items of equal key (an unstable sort).
InsertSortedUnstable(sorted, kv) ==
  LET before == {i \in 1..Len(sorted) : SortKey(sorted[i]) < SortKey(kv)}
      n == Cardinality(before)
  IN SubSeq(sorted, 1, n) \o <<kv>> \o SubSeq(sorted, n + 1, Len(sorted))

\* kv put after the last item whose key is not above kv's.
InsertSorted(sorted, kv) ==
  LET before == {i \in 1..Len(sorted) : SortKey(sorted[i]) <= SortKey(kv)}
      n == Cardinality(before)
  IN SubSeq(sorted, 1, n) \o <<kv>> \o SubSeq(sorted, n + 1, Len(sorted))

RECURSIVE SortedItems(_, _)
SortedItems(items, sorted) ==
  IF items = <<>> THEN sorted
  ELSE SortedItems(Tail(items), InsertSorted(sorted, Head(items)))

RECURSIVE SumCounts(_)
SumCounts(counter) == IF counter = <<>> THEN 0 ELSE Head(counter)[2] + SumCounts(Tail(counter))

summarize(rows, column) ==
  IF FirstError(rows, column) # ""
  THEN [raised |-> FirstError(rows, column), entries |-> <<>>, total |-> 0]
  ELSE LET counter == CounterOf(rows, column, <<>>)
       IN [raised |-> "", entries |-> SortedItems(counter, <<>>), total |-> SumCounts(counter)]

(***************************************************************************)
(* make_svg.  A line of the document is a record of the values its         *)
(* f-string interpolates; a float interpolated with .1f is the number of   *)
(* tenths printed.                                                         *)
(***************************************************************************)
width == 1400
height == 980
left_margin == 90
chart_left == 520
chart_width == 780
top_margin == 170
row_gap == 140
bar_height == 46

\* pct = (count / total) * 100 if total else 0
Pct(count, total) == IF total # 0 THEN FMul(100, FDiv(count, total)) ELSE FromInt(0)

\* Variant of PropWidth: the canvas width for the chart width.
PropWidthOfCanvas(count, total) == FMul(width, FDiv(count, total))

\* chart_width * (count / total), the width before the floor.
PropWidth(count, total) == FMul(chart_width, FDiv(count, total))

\* seg_w = max(1.0, chart_width * (count / total)) if total else 0
SegW(count, total) ==
  IF total # 0 THEN FMax(FromInt(1), PropWidth(count, total)) ELSE FromInt(0)

\* The denominators of the divisions one iteration evaluates.
Divisors(total) == IF total # 0 THEN <<total, total>> ELSE <<>>

\* tone = ORDER.get(text, 2)
Tone(text) == IF text \in DOMAIN ORDER THEN ORDER[text] ELSE 2

\* color = COLOR_SCALE.get(tone, "#6b778d")
Color(tone) == IF tone \in DOMAIN COLOR_SCALE THEN COLOR_SCALE[tone] ELSE "#6b778d"

\* Variant of LabelInside: seg_w >= 115.
LabelInsideOrEqual(seg_w) == CmpF(seg_w, FromInt(115)) >= 0

\* if seg_w > 115
LabelInside(seg_w) == FGreater(seg_w, FromInt(115))

\* The lines one iteration appends for a segment of width seg_w at cursor x.
SegmentLines(text, pct, seg_w, color, x, y) ==
  << [kind |-> "bar", x |-> Fmt1(x), y |-> y, width |-> Fmt1(seg_w),
      height |-> bar_height, fill |-> color] >>
  \o (IF LabelInside(seg_w)
      THEN << [kind |-> "answer", x |-> Fmt1(FAdd(x, FHalf(seg_w))), y |-> y + 21,
               anchor |-> "middle", text |-> text],
              [kind |-> "percent", x |-> Fmt1(FAdd(x, FHalf(seg_w))), y |-> y + 39,
               anchor |-> "middle", pct |-> Fmt1(pct)] >>
      ELSE << [kind |-> "percent", x |-> Fmt1(FAdd(FAdd(x, seg_w), FromInt(6))),
               y |-> y + 28, anchor |-> "start", pct |-> Fmt1(pct)] >>)

\* One iteration of the inner loop at cursor x: its locals and the lines it appends.
Segment(kv, total, x, y) ==
  LET pct == Pct(kv[2], total)
      seg_w == SegW(kv[2], total)
  IN [text |-> kv[1], count |-> kv[2], total |-> total, x |-> x,
      pct |-> pct,
      prop_w |-> IF total # 0 THEN PropWidth(kv[2], total) ELSE FromInt(0),
      seg_w |-> seg_w,
      divisors |-> Divisors(total),
      lines |-> SegmentLines(kv[1], pct, seg_w, Color(Tone(kv[1])), x, y)]

\* Variant of Segments: the cursor advanced by the width before the floor.
RECURSIVE SegmentsAdvanceUnfloored(_, _, _, _)
SegmentsAdvanceUnfloored(entries, total, x, y) ==
  IF entries = <<>> THEN <<>>
  ELSE LET seg == Segment(Head(entries), total, x, y)
       IN <<seg>> \o SegmentsAdvanceUnfloored(Tail(entries), total, FAdd(x, seg.prop_w), y)

\* The inner loop from cursor x: x += seg_w after each iteration.
RECURSIVE Segments(_, _, _, _)
Segments(entries, total, x, y) ==
  IF entries = <<>> THEN <<>>
  ELSE LET seg == Segment(Head(entries), total, x, y)
       IN <<seg>> \o Segments(Tail(entries), total, FAdd(x, seg.seg_w), y)

RECURSIVE AllSegmentLines(_)
AllSegmentLines(segs) ==
  IF segs = <<>> THEN <<>> ELSE Head(segs).lines \o AllSegmentLines(Tail(segs))

\* y = top_margin + i * row_gap
RowY(i) == top_margin + i * row_gap

\* The iterations of the inner loop for question row i (from 0): x = chart_left first.
RowLayout(result, i) == Segments(result[2], result[3], FromInt(chart_left), RowY(i))

\* The inner-loop iterations of every question row, as make_svg runs them.
Layout(results) == [i \in 1..Len(results) |-> RowLayout(results[i], i - 1)]

\* The lines of question row i (from 0) whose inner loop ran as segs: card, label, segments.
RowLines(result, i, segs) ==
  << [kind |-> "card", x |-> 70, y |-> RowY(i) - 44],
     [kind |-> "label", x |-> left_margin, y |-> RowY(i) - 8, text |-> result[1]] >>
  \o AllSegmentLines(segs)

\* The lines of question rows i.. (from 0).
RECURSIVE AllRowLines(_, _, _)
AllRowLines(results, lay, i) ==
  IF i >= Len(results) THEN <<>>
  ELSE RowLines(results[i + 1], i, lay[i + 1]) \o AllRowLines(results, lay, i + 1)

HeaderLines(n_finished) ==
  << [kind |-> "svg", width |-> width, height |-> height],
     [kind |-> "defs"],
     [kind |-> "background"],
     [kind |-> "title"],
     [kind |-> "subtitle"],
     [kind |-> "sample", n |-> n_finished] >>

FooterLines == << [kind |-> "source"], [kind |-> "end"] >>

\* The document, given the iterations lay of the inner loops.
Document(results, n_finished, lay) ==
  HeaderLines(n_finished) \o AllRowLines(results, lay, 0) \o FooterLines

make_svg(results, n_finished) == Document(results, n_finished, Layout(results))

(***************************************************************************)
(* The input file as csv.DictReader reads it: every row maps the header's  *)
(* columns to a cell.                                                      *)
(***************************************************************************)
Columns == {"ResponseId", "StartDate", "Finished", "Q29", "Q51", "Q52", "Q6", "Q25"}

Row(id, start, fin, q29, q51, q52, q6, q25) ==
  [ResponseId |-> id, StartDate |-> start, Finished |-> fin,
   Q29 |-> q29, Q51 |-> q51, Q52 |-> q52, Q6 |-> q6, Q25 |-> q25]

Date == Cell(<<"2025-12-01", " ", "09:45:00">>)

RowTemplates ==
  { Row(Cell(<<"R_1">>), Date, Cell(<<"True">>),
        Cell(<<"Very likely">>), Cell(<<" ", "Increased desire", " ">>), Cell(<<>>),
        Cell(<<"Neutral">>), Cell(<<"Other">>)),
    Row(Cell(<<"R_2">>), Date, Cell(<<"True">>),
        Cell(<<"Very unlikely">>), Cell(<<"Increased desire">>), Cell(<<" ", "\t">>),
        Cell(<<"Very Positive">>), Cell(<<"Very attractive">>)),
    Row(Cell(<<"R_3">>), Date, Cell(<<"True">>),
        Cell(<<"Somewhat likely", "\n">>), Cell(<<"Decreased desire">>), Cell(<<>>),
        Cell(<<"Very Negative">>), Cell(<<"N/A">>)),
    \* a short row: the last field is missing
    Row(Cell(<<"R_4">>), Date, Cell(<<"True">>),
        Cell(<<"Very likely">>), Cell(<<>>), Cell(<<>>), Cell(<<"Neutral">>), None),
    \* no identifier
    Row(Cell(<<>>), Date, Cell(<<"True">>),
        Cell(<<"Very likely">>), Cell(<<"Increased desire">>), Cell(<<"Neutral">>),
        Cell(<<"Neutral">>), Cell(<<"Very attractive">>)),
    \* unfinished
    Row(Cell(<<"R_6">>), Date, Cell(<<"False">>),
        Cell(<<"Somewhat unlikely">>), Cell(<<"No change in desire">>), Cell(<<"Other">>),
        Cell(<<"Neutral">>), Cell(<<"Somewhat attractive">>)),
    \* the header repeated as a data row
    Row(Cell(<<"R_7">>), Cell(<<"Start Date">>), Cell(<<"True">>),
        Cell(<<"Very unlikely">>), Cell(<<"Increased desire">>), Cell(<<"Neutral">>),
        Cell(<<"Very Negative">>), Cell(<<"Other">>)),
    \* Finished in another case
    Row(Cell(<<"R_8">>), Date, Cell(<<"true">>),
        Cell(<<"Somewhat likely">>), Cell(<<"Decreased desire">>), Cell(<<"Other">>),
        Cell(<<"Somewhat Positive">>), Cell(<<"Very attractive">>)) }

\* The headers: every expected column, or the export without Q6.
Headers == {Columns, Columns \ {"Q6"}}

Restrict(r, header) == [c \in header |-> r[c]]

MaxRows == 3
MaxRuns == 2

RECURSIVE SeqsUpTo(_, _)
SeqsUpTo(S, n) ==
  IF n = 0 THEN {<<>>}
  ELSE LET shorter == SeqsUpTo(S, n - 1)
       IN shorter \cup {Append(q, e) : q \in {t \in shorter : Len(t) = n - 1}, e \in S}

InputFiles ==
  {[i \in 1..Len(q) |-> Restrict(q[i], h)] : q \in SeqsUpTo(RowTemplates, MaxRows), h \in Headers}

\* What the output path holds before the first run.
OldFile == << [kind |-> "stale"] >>

(***************************************************************************)
(* main, one action per step.                                              *)
(***************************************************************************)
VARIABLES
  file,        \* the rows of the input file
  pc,          \* where main is
  inOpen,      \* the input handle is open
  outOpen,     \* the output handle is open
  allRows,     \* load_rows: rows
  rows,        \* main: rows
  results,     \* main: results
  n_finished,  \* make_svg: n_finished
  layout,      \* make_svg: the iterations of the inner loop, per question row
  svg,         \* main: svg
  outFile,     \* the content at OUTPUT_PATH
  stdout,      \* the lines printed
  error,       \* the exception that ended the run, "" when none
  events,      \* the steps this run has taken
  run,         \* the number of this run
  startOut,    \* outFile when this run started
  prevOut      \* outFile when the previous run ended

vars == <<file, pc, inOpen, outOpen, allRows, rows, results, n_finished, layout, svg,
          outFile, stdout, error, events, run, startOut, prevOut>>

locals == <<allRows, rows, results, n_finished, layout, svg>>

Init ==
  /\ file \in InputFiles
  /\ pc = "start"
  /\ inOpen = FALSE /\ outOpen = FALSE
  /\ allRows = <<>> /\ rows = <<>> /\ results = <<>>
  /\ n_finished = 0 /\ layout = <<>> /\ svg = <<>>
  /\ outFile = OldFile
  /\ stdout = <<>> /\ error = "" /\ events = <<>>
  /\ run = 1
  /\ startOut = OldFile /\ prevOut = OldFile

Raise(exc) == pc' = "aborted" /\ error' = exc

\* path.open(...) succeeds
OpenInput ==
  /\ pc = "start"
  /\ inOpen' = TRUE
  /\ pc' = "read"
  /\ events' = Append(events, "open_input")
  /\ UNCHANGED <<file, outOpen, locals, outFile, stdout, error, run, startOut, prevOut>>

\* path.open(...) raises: the file is absent or unreadable
OpenInputFail ==
  /\ pc = "start"
  /\ Raise("OSError")
  /\ UNCHANGED <<file, inOpen, outOpen, locals, outFile, stdout, events, run, startOut, prevOut>>

\* Variant of ReadInput: the handle is not closed.
ReadInputLeaveOpen ==
  /\ pc = "read"
  /\ allRows' = file
  /\ pc' = "filter"
  /\ events' = Append(events, "close_input")
  /\ UNCHANGED <<file, inOpen, outOpen, rows, results, n_finished, layout, svg, outFile,
                 stdout, error, run, startOut, prevOut>>

\* rows = list(csv.DictReader(fh)), then the with block closes fh
ReadInput ==
  /\ pc = "read"
  /\ allRows' = file
  /\ inOpen' = FALSE
  /\ pc' = "filter"
  /\ events' = Append(events, "close_input")
  /\ UNCHANGED <<file, outOpen, rows, results, n_finished, layout, svg, outFile, stdout,
                 error, run, startOut, prevOut>>

\* clean = [...]; return clean; results = []
FilterRows ==
  /\ pc = "filter"
  /\ rows' = load_rows(allRows)
  /\ results' = <<>>
  /\ pc' = "summarize"
  /\ events' = Append(events, "load_rows")
  /\ UNCHANGED <<file, inOpen, outOpen, allRows, n_finished, layout, svg, outFile, stdout,
                 error, run, startOut, prevOut>>

\* The question the loop of main is at.
NextQuestion == QUESTIONS[Len(results) + 1]

\* entries, total = summarize(rows, col); results.append((label, entries, total))
SummarizeOk ==
  /\ pc = "summarize"
  /\ Len(results) < Len(QUESTIONS)
  /\ summarize(rows, NextQuestion[1]).raised = ""
  /\ results' = Append(results, <<NextQuestion[2],
                                  summarize(rows, NextQuestion[1]).entries,
                                  summarize(rows, NextQuestion[1]).total>>)
  /\ events' = Append(events, NextQuestion[1])
  /\ UNCHANGED <<file, pc, inOpen, outOpen, allRows, rows, n_finished, layout, svg, outFile,
                 stdout, error, run, startOut, prevOut>>

\* summarize(rows, col) raises
SummarizeRaise ==
  /\ pc = "summarize"
  /\ Len(results) < Len(QUESTIONS)
  /\ summarize(rows, NextQuestion[1]).raised # ""
  /\ Raise(summarize(rows, NextQuestion[1]).raised)
  /\ UNCHANGED <<file, inOpen, outOpen, locals, outFile, stdout, events, run, startOut, prevOut>>

\* svg = make_svg(results, len(rows))
Render ==
  /\ pc = "summarize"
  /\ Len(results) = Len(QUESTIONS)
  /\ n_finished' = Len(rows)
  /\ layout' = Layout(results)
  /\ svg' = Document(results, Len(rows), layout')
  /\ pc' = "write"
  /\ events' = Append(events, "make_svg")
  /\ UNCHANGED <<file, inOpen, outOpen, allRows, rows, results, outFile, stdout, error, run,
                 startOut, prevOut>>

\* OUTPUT_PATH.write_text: open(mode "w") succeeds and truncates
OpenOutput ==
  /\ pc = "write"
  /\ outOpen' = TRUE
  /\ outFile' = <<>>
  /\ pc' = "writing"
  /\ events' = Append(events, "open_output")
  /\ UNCHANGED <<file, inOpen, locals, stdout, error, run, startOut, prevOut>>

\* OUTPUT_PATH.write_text: open raises (directory missing or unwritable)
OpenOutputFail ==
  /\ pc = "write"
  /\ Raise("OSError")
  /\ UNCHANGED <<file, inOpen, outOpen, locals, outFile, stdout, events, run, startOut, prevOut>>

\* OUTPUT_PATH.write_text: f.write(svg), then the handle closes
WriteOutput ==
  /\ pc = "writing"
  /\ outFile' = svg
  /\ outOpen' = FALSE
  /\ pc' = "print"
  /\ events' = Append(events, "write_output")
  /\ UNCHANGED <<file, inOpen, locals, stdout, error, run, startOut, prevOut>>

\* OUTPUT_PATH.write_text: f.write raises; the handle closes, the file stays truncated
WriteFail ==
  /\ pc = "writing"
  /\ outOpen' = FALSE
  /\ Raise("OSError")
  /\ UNCHANGED <<file, inOpen, locals, outFile, stdout, events, run, startOut, prevOut>>

\* print(f"Wrote {OUTPUT_PATH}")
PrintWrote ==
  /\ pc = "print"
  /\ stdout' = Append(stdout, "Wrote")
  /\ pc' = "done"
  /\ events' = Append(events, "print")
  /\ UNCHANGED <<file, inOpen, outOpen, locals, outFile, error, run, startOut, prevOut>>

\* The script is run again on the unchanged input file.
RunAgain ==
  /\ pc = "done"
  /\ run < MaxRuns
  /\ run' = run + 1
  /\ pc' = "start"
  /\ allRows' = <<>> /\ rows' = <<>> /\ results' = <<>>
  /\ n_finished' = 0 /\ layout' = <<>> /\ svg' = <<>>
  /\ stdout' = <<>> /\ events' = <<>>
  /\ startOut' = outFile /\ prevOut' = outFile
  /\ UNCHANGED <<file, inOpen, outOpen, outFile, error>>

Next ==
  \/ OpenInput \/ OpenInputFail \/ ReadInput \/ FilterRows
  \/ SummarizeOk \/ SummarizeRaise \/ Render
  \/ OpenOutput \/ OpenOutputFail \/ WriteOutput \/ WriteFail
  \/ PrintWrote \/ RunAgain

Spec == Init /\ [][Next]_vars
(***************************************************************************)
(* make_svg alone, on summaries with counts up to several hundred: the     *)
(* first question's summary is drawn, the others are empty.                *)
(***************************************************************************)
\* Answers in the order summarize returns them.
DrawnAnswers == <<"Very unlikely", "Somewhat likely", "Very likely", "Other">>

DrawnCounts == {1, 2, 8, 23, 133, 781}

MaxEntries == 2

\* The answers at the positions picked, in order, with the counts given.
RECURSIVE EntriesOf(_, _, _)
EntriesOf(picked, counts, i) ==
  IF i > Len(DrawnAnswers) THEN <<>>
  ELSE (IF i \in picked THEN << <<DrawnAnswers[i], counts[i]>> >> ELSE <<>>)
       \o EntriesOf(picked, counts, i + 1)

DrawnEntries ==
  {EntriesOf(picked, counts, 1) :
     counts \in [1..Len(DrawnAnswers) -> DrawnCounts],
     picked \in {P \in SUBSET (1..Len(DrawnAnswers)) : Cardinality(P) <= MaxEntries}}

DrawnResults(entries) ==
  [i \in 1..Len(QUESTIONS) |->
     IF i = 1 THEN <<QUESTIONS[i][2], entries, SumCounts(entries)>>
     ELSE <<QUESTIONS[i][2], <<>>, 0>>]

InitRender ==
  /\ \E entries \in DrawnEntries :
       /\ results = DrawnResults(entries)
       /\ n_finished = SumCounts(entries)
  /\ pc = "call"
  /\ file = <<>> /\ allRows = <<>> /\ rows = <<>>
  /\ inOpen = FALSE /\ outOpen = FALSE
  /\ layout = <<>> /\ svg = <<>>
  /\ outFile = OldFile
  /\ stdout = <<>> /\ error = "" /\ events = <<>>
  /\ run = 1
  /\ startOut = OldFile /\ prevOut = OldFile

\* svg = make_svg(results, n_finished)
RenderDrawn ==
  /\ pc = "call"
  /\ layout' = Layout(results)
  /\ svg' = Document(results, n_finished, layout')
  /\ pc' = "returned"
  /\ UNCHANGED <<file, inOpen, outOpen, allRows, rows, results, n_finished, outFile, stdout,
                 error, events, run, startOut, prevOut>>

NextRender == RenderDrawn

SpecRender == InitRender /\ [][NextRender]_vars
(***************************************************************************)
(* Claims.                                                                 *)
(***************************************************************************)
\* load_rows has returned in this run.
Loaded == \E n \in 1..Len(events) : events[n] = "load_rows"

\* The three conditions on a row of the input.
Retained(r) ==
  /\ "ResponseId" \in DOMAIN r /\ r["ResponseId"].some /\ r["ResponseId"].chunks # <<>>
  /\ ~("StartDate" \in DOMAIN r /\ r["StartDate"].some /\ Text(r["StartDate"]) = "Start Date")
  /\ "Finished" \in DOMAIN r /\ r["Finished"].some /\ Text(r["Finished"]) = "True"

RetainedIdx == {i \in 1..Len(allRows) : Retained(allRows[i])}

\* C1: load_rows retains a row iff its ResponseId is present and non-empty, its
\* StartDate is not "Start Date" and its Finished is "True"; the retained rows keep
\* their relative order and none is added or duplicated: the k-th row returned is
\* the k-th row of the input that meets the three conditions.
C1_LoadRowsFilter ==
  Loaded =>
    /\ Len(rows) = Cardinality(RetainedIdx)
    /\ \A k \in 1..Len(rows) :
         \E i \in RetainedIdx :
           /\ Cardinality({j \in RetainedIdx : j <= i}) = k
           /\ rows[k] = allRows[i]

\* Rows of each excluded kind were read, and rows were retained around them.
C1_Witness ==
  /\ Loaded
  /\ Len(allRows) = MaxRows
  /\ Len(rows) = 2
  /\ rows[1] # rows[2]
  /\ \E i \in 1..Len(allRows) : ~Retained(allRows[i]) /\ i < Len(allRows)

\* The cell of a row has a character that is not whitespace.
HasAnswer(r, column) ==
  \E n \in 1..Len(r[column].chunks) : r[column].chunks[n] \notin Whitespace

RECURSIVE SumOfCounts(_, _)
SumOfCounts(entries, n) == IF n = 0 THEN 0 ELSE entries[n][2] + SumOfCounts(entries, n - 1)

\* C2: for every summary produced, the total is the sum of the returned counts and
\* the number of filtered rows whose trimmed value in the column is not empty; the
\* answers are distinct, non-empty and trimmed, and each count is the number of
\* rows whose trimmed value is that answer.
C2_SummaryCounts ==
  \A q \in 1..Len(results) :
    LET column == QUESTIONS[q][1]
        entries == results[q][2]
        total == results[q][3]
    IN /\ total = SumOfCounts(entries, Len(entries))
       /\ total = Cardinality({k \in 1..Len(rows) : HasAnswer(rows[k], column)})
       /\ \A j \in 1..Len(entries) :
            /\ entries[j][1] # ""
            /\ entries[j][2] =
                 Cardinality({k \in 1..Len(rows) : Strip(rows[k][column]) = entries[j][1]})
            /\ entries[j][2] >= 1
            /\ \A j2 \in 1..Len(entries) : j2 # j => entries[j2][1] # entries[j][1]

\* A summary that merged a padded and an unpadded cell and left an empty one out.
C2_Witness ==
  \E q \in 1..Len(results) :
    /\ \E j \in 1..Len(results[q][2]) : results[q][2][j][2] >= 2
    /\ results[q][3] < Len(rows)
    /\ results[q][3] >= 2
    /\ \E k \in 1..Len(rows) :
         /\ HasAnswer(rows[k], QUESTIONS[q][1])
         /\ rows[k][QUESTIONS[q][1]].chunks[1] \in Whitespace

Mapped(text) == text \in DOMAIN ORDER

\* C3: in every summary produced, of two answers in the rank table the one with the
\* lower rank comes first whatever their counts, and every answer outside the rank
\* table comes after every answer in it.
C3_RankOrder ==
  \A q \in 1..Len(results) :
    LET entries == results[q][2]
    IN \A i, j \in 1..Len(entries) :
         /\ (Mapped(entries[i][1]) /\ Mapped(entries[j][1])
             /\ ORDER[entries[i][1]] < ORDER[entries[j][1]]) => i < j
         /\ (Mapped(entries[i][1]) /\ ~Mapped(entries[j][1])) => i < j

\* A lower rank with the smaller count first seen later, and an unmapped answer
\* first seen before a mapped one.
C3_Witness ==
  /\ \E q \in 1..Len(results) :
       \E i, j \in 1..Len(results[q][2]) :
         /\ i < j
         /\ Mapped(results[q][2][i][1]) /\ Mapped(results[q][2][j][1])
         /\ results[q][2][i][2] < results[q][2][j][2]
         /\ Strip(rows[1][QUESTIONS[q][1]]) = results[q][2][j][1]
  /\ \E q \in 1..Len(results) :
       \E i, j \in 1..Len(results[q][2]) :
         /\ i < j
         /\ Mapped(results[q][2][i][1]) /\ ~Mapped(results[q][2][j][1])
         /\ Strip(rows[1][QUESTIONS[q][1]]) = results[q][2][j][1]

\* C4: a question column that is missing from the input does not make the run
\* raise: summarize yields an empty summary and the run goes on to render and write.
C4_MissingColumnHandled == ~(pc = "aborted" /\ error \in {"KeyError", "AttributeError"})

\* Every iteration of the inner loops that make_svg ran: <<question row, iteration>>.
Iterations == UNION {{<<q, j>> : j \in 1..Len(layout[q])} : q \in 1..Len(layout)}

\* A value 2^-k.
Pow2Neg(k) == Pow2F(16 * FracLimbs - k)

\* a and b differ by at most tol.
Within(a, b, tol) == CmpF(a, AddExact(b, tol)) <= 0 /\ CmpF(b, AddExact(a, tol)) <= 0

\* Where segment j of row q ends: x + seg_w, exactly.
RightEdge(q, j) == AddExact(layout[q][j].x, layout[q][j].seg_w)

\* The segment was raised to the minimum width of 1.
Floored(seg) == CmpF(seg.prop_w, FromInt(1)) = -1

FlooredCount(q) == Cardinality({j \in 1..Len(layout[q]) : Floored(layout[q][j])})

\* Where segment j of row q ends as the script computes it: the float x + seg_w.
FloatRightEdge(q, j) == FAdd(layout[q][j].x, layout[q][j].seg_w)

\* C5 as claimed: for every rendered row with total > 0, the first segment starts
\* at 520, each later one starts at the previous x plus the previous width, and the
\* last one ends at 1300, the bar spanning 780.
C5_TilesExactly ==
  \A q \in 1..Len(layout) :
    Len(layout[q]) > 0 =>
      /\ layout[q][1].x = FromInt(chart_left)
      /\ \A j \in 2..Len(layout[q]) : layout[q][j].x = FloatRightEdge(q, j - 1)
      /\ FloatRightEdge(q, Len(layout[q])) = FromInt(chart_left + chart_width)

\* C5 as amended: the first segment starts at 520; each later one starts at the
\* previous x plus the previous width rounded to a float (within 2^-43 of it); the
\* last of n segments ends no less than n * 2^-42 short of 1300 and no more than
\* the number of floored segments plus n * 2^-42 beyond it.
C5_TilesUpToRoundingAndFloor ==
  \A q \in 1..Len(layout) :
    Len(layout[q]) > 0 =>
      LET n == Len(layout[q])
          slack == MulSmallExact(Pow2Neg(42), n)
          right == RightEdge(q, n)
      IN /\ layout[q][1].x = FromInt(chart_left)
         /\ \A j \in 2..n : Within(layout[q][j].x, RightEdge(q, j - 1), Pow2Neg(43))
         /\ CmpF(AddExact(right, slack), FromInt(chart_left + chart_width)) >= 0
         /\ CmpF(right, AddExact(FromInt(chart_left + chart_width + FlooredCount(q)), slack)) <= 0

\* A bar with a floored segment that ends beyond 1300.
C5_Witness ==
  \E q \in 1..Len(layout) :
    /\ Len(layout[q]) >= 2
    /\ FlooredCount(q) >= 1
    /\ CmpF(RightEdge(q, Len(layout[q])), FromInt(chart_left + chart_width)) = 1

\* The sum, taken exactly, of the widths before the floor of segments 1..j of row q.
RECURSIVE PropSum(_, _)
PropSum(q, j) ==
  IF j = 0 THEN FromInt(0) ELSE AddExact(PropSum(q, j - 1), layout[q][j].prop_w)

\* C6 as claimed: the widths before the floor sum to 780.
C6_PropWidthsSumExactly ==
  \A q \in 1..Len(layout) :
    Len(layout[q]) > 0 => PropSum(q, Len(layout[q])) = FromInt(chart_width)

\* C6 as amended: the widths before the floor, each a float, sum to within 2^-42
\* of 780.
C6_PropWidthsSumUpToRounding ==
  \A q \in 1..Len(layout) :
    Len(layout[q]) > 0 =>
      Within(PropSum(q, Len(layout[q])), FromInt(chart_width), Pow2Neg(42))

\* A bar of two segments whose widths before the floor do not sum to 780.
C6_Witness ==
  \E q \in 1..Len(layout) :
    /\ Len(layout[q]) >= 2
    /\ PropSum(q, Len(layout[q])) # FromInt(chart_width)

\* The kinds of the lines an iteration appended, in order.
Kinds(lines) == [n \in 1..Len(lines) |-> lines[n].kind]

\* C10: a segment wider than 115 gets its answer and its percentage centered at
\* x + width/2; any other, one of width 115 included, gets only its percentage, at
\* x + width + 6; a single answer holding the whole total is one segment of width
\* 780 with the centered layout.
C10_LabelLayout ==
  /\ \A it \in Iterations :
       LET seg == layout[it[1]][it[2]]
           mid == Fmt1(FAdd(seg.x, FHalf(seg.seg_w)))
           right == Fmt1(FAdd(FAdd(seg.x, seg.seg_w), FromInt(6)))
       IN IF CmpF(seg.seg_w, FromInt(115)) = 1
          THEN /\ Kinds(seg.lines) = <<"bar", "answer", "percent">>
               /\ seg.lines[2].x = mid /\ seg.lines[2].anchor = "middle"
               /\ seg.lines[2].text = seg.text
               /\ seg.lines[3].x = mid /\ seg.lines[3].anchor = "middle"
          ELSE /\ Kinds(seg.lines) = <<"bar", "percent">>
               /\ seg.lines[2].x = right /\ seg.lines[2].anchor = "start"
  /\ \A q \in 1..Len(layout) :
       Len(layout[q]) = 1 =>
         /\ layout[q][1].seg_w = FromInt(chart_width)
         /\ Kinds(layout[q][1].lines) = <<"bar", "answer", "percent">>

\* A segment of width exactly 115 beside a wider one.
C10_Witness ==
  \E q \in 1..Len(layout) :
    /\ \E j \in 1..Len(layout[q]) : layout[q][j].seg_w = FromInt(115)
    /\ \E j \in 1..Len(layout[q]) : CmpF(layout[q][j].seg_w, FromInt(115)) = 1

\* make_svg has returned in this run.
Rendered == \E n \in 1..Len(events) : events[n] = "make_svg"

\* No filtered row has an answer in the column of question q.
NoAnswers(q) == \A k \in 1..Len(rows) : ~HasAnswer(rows[k], QUESTIONS[q][1])

\* The line lies in the band of question row q (from 1).
InRow(line, q) ==
  "y" \in DOMAIN line /\ line.y >= RowY(q - 1) - 44 /\ line.y <= RowY(q - 1) + bar_height

\* The kinds of the lines of the document in the band of question row q, in order.
RowKinds(q) == Kinds(SelectSeq(svg, LAMBDA line : InRow(line, q)))

\* C7: a question with no non-empty answer among the filtered rows gets the empty
\* summary with total 0, and its row of the document is the card and the label
\* with no bar and no percentage; no division by a total of 0 is evaluated, and a
\* percentage computed for a total of 0 is 0.
C7_EmptyQuestion ==
  /\ \A q \in 1..Len(results) :
       NoAnswers(q) => results[q][2] = <<>> /\ results[q][3] = 0
  /\ Rendered =>
       \A q \in 1..Len(results) :
         results[q][3] = 0 => layout[q] = <<>> /\ RowKinds(q) = <<"card", "label">>
  /\ \A it \in Iterations :
       LET seg == layout[it[1]][it[2]]
       IN /\ \A n \in 1..Len(seg.divisors) : seg.divisors[n] # 0
          /\ seg.total = 0 => seg.pct = FromInt(0)

\* A document rendered from rows of which one holds only whitespace in a column
\* that no row answers, beside a column that has answers.
C7_Witness ==
  /\ Rendered
  /\ \E q \in 1..Len(results) :
       /\ NoAnswers(q)
       /\ \E k \in 1..Len(rows) : rows[k][QUESTIONS[q][1]].chunks # <<>>
       /\ RowKinds(q) = <<"card", "label">>
  /\ \E q \in 1..Len(results) : results[q][3] > 0 /\ Len(RowKinds(q)) > 2

RankOf(text) == IF Mapped(text) THEN ORDER[text] ELSE 999

\* The first filtered row whose trimmed value in the column is the text.
FirstSeen(text, column) ==
  CHOOSE k \in 1..Len(rows) :
    /\ Strip(rows[k][column]) = text
    /\ \A k2 \in 1..(k - 1) : Strip(rows[k2][column]) # text

\* C8: a second run on the unchanged input renders the document the first run
\* wrote and leaves the output file equal to it; answers of equal rank are in the
\* order of their first occurrence in the filtered rows.
C8_Deterministic ==
  /\ \A q \in 1..Len(results) :
       \A i, j \in 1..Len(results[q][2]) :
         (i < j /\ RankOf(results[q][2][i][1]) = RankOf(results[q][2][j][1])) =>
           FirstSeen(results[q][2][i][1], QUESTIONS[q][1])
             < FirstSeen(results[q][2][j][1], QUESTIONS[q][1])
  /\ (run >= 2 /\ Rendered) => svg = prevOut
  /\ (run >= 2 /\ pc \in {"print", "done"}) => outFile = prevOut

\* A second run that finished, with two answers of equal rank in one summary.
C8_Witness ==
  /\ run = 2 /\ pc = "done"
  /\ Len(rows) >= 2
  /\ \E q \in 1..Len(results) :
       \E i, j \in 1..Len(results[q][2]) :
         i < j /\ RankOf(results[q][2][i][1]) = RankOf(results[q][2][j][1])

\* The steps of a run, in order.
StepOrder ==
  <<"open_input", "close_input", "load_rows", "Q29", "Q51", "Q52", "Q6", "Q25",
    "make_svg", "open_output", "write_output", "print">>

Took(step) == \E n \in 1..Len(events) : events[n] = step

\* C9: the steps of a run are a prefix of read input, five summaries in QUESTIONS
\* order, render, write, print; the input handle is closed before any summary and
\* before the output is opened; the output file changes only once the five
\* summaries and the render are done; a run that fails before the write leaves the
\* output file as it was, and a run that fails prints nothing.
C9_StepOrder ==
  /\ Len(events) <= Len(StepOrder)
  /\ \A n \in 1..Len(events) : events[n] = StepOrder[n]
  /\ ~(inOpen /\ outOpen)
  /\ inOpen => events = <<"open_input">> /\ results = <<>>
  /\ (results # <<>> \/ Took("load_rows") \/ Took("open_output")) => ~inOpen
  /\ outOpen => events = SubSeq(StepOrder, 1, 10)
  /\ outFile # startOut => Len(results) = Len(QUESTIONS) /\ Rendered /\ Took("open_output")
  /\ (outFile # startOut /\ ~outOpen /\ pc # "aborted") => outFile = svg
  /\ (pc = "aborted" /\ ~Took("open_output")) => outFile = startOut
  /\ pc = "aborted" => stdout = <<>>
  /\ stdout # <<>> => stdout = <<"Wrote">> /\ outFile = svg /\ events = StepOrder

\* A run that took every step on an input with retained rows.
C9_Witness == pc = "done" /\ events = StepOrder /\ Len(rows) >= 1 /\ outFile = svg

====
